---------------------------- MODULE Spec2Model ----------------------------
(***************************************************************************)
(* duat-catppuccin: the Catppuccin colour schemes of Duat.                 *)
(*                                                                         *)
(* The model covers the plugin value (Catppuccin: new, no_background,      *)
(* modify, plug), the four ColorScheme values it hands to the host         *)
(* (latte, frappe, macchiato, mocha, no_bg, name) and ColorScheme::apply,  *)
(* which writes the "Default" form, then the set_many! list, then calls    *)
(* the user's modifications.  The host's form registry is a map from form  *)
(* names to forms with upsert writes; the host's scheme list is a          *)
(* sequence.  apply is followed one registry write at a time so that the   *)
(* order of its writes, and an abort between two writes, can be stated.    *)
(***************************************************************************)
EXTENDS Naturals, Sequences, FiniteSets

VARIABLES
    plugin,     \* the Catppuccin value being configured: no_background, modifications
    plugged,    \* plug(self) has consumed the plugin
    schemes,    \* the host's colour schemes, in the order they were added
    forms,      \* the host's form registry: name -> Form (NoForm when unset)
    pc,         \* "idle" | "apply" | "modifications" | "done" | "aborted"
    cur,        \* index in schemes of the scheme whose apply() runs (0: none yet)
    i,          \* next statement of apply() to run
    j,          \* next write of the modifications closure to run
    log,        \* history: what the current apply() has done so far, in order
    start,      \* history: the registry when the current apply() was first called
    prev,       \* history: scheme whose apply() returned right before this call (0: none)
    invoked,    \* history: flavours whose apply() has called the modifications
    kept        \* history: most writes an aborted attempt of this apply() had made

vars == <<plugin, plugged, schemes, forms, pc, cur, i, j, log, start, prev,
          invoked, kept>>

---------------------------------------------------------------------------
(* Forms: foreground, background, attributes (duat_core::form::Form).      *)

None == "none"

NoForm == [fg |-> "unset", bg |-> "unset", attrs |-> {}]

new == [fg |-> None, bg |-> None, attrs |-> {}]

with(color) == [new EXCEPT !.fg = color]

on(form, color) == [form EXCEPT !.bg = color]

bold(form) == [form EXCEPT !.attrs = @ \cup {"bold"}]

italic(form) == [form EXCEPT !.attrs = @ \cup {"italic"}]

underlined(form) == [form EXCEPT !.attrs = @ \cup {"underlined"}]

reverse(form) == [form EXCEPT !.attrs = @ \cup {"reverse"}]

crossed_out(form) == [form EXCEPT !.attrs = @ \cup {"crossed_out"}]

reset(form) == [form EXCEPT !.attrs = @ \cup {"reset"}]

(* form::set: the registry's upsert.                                       *)
set(reg, key, form) == [reg EXCEPT ![key] = form]

(* add_colorscheme: the host keeps the schemes it is given.                *)
add_colorscheme(list, cs) == Append(list, cs)

---------------------------------------------------------------------------
(* The palettes.                                                           *)

LATTE ==
    [ rosewater |-> "#dc8a78",
      flamingo |-> "#dd7878",
      pink |-> "#ea76cb",
      mauve |-> "#8839ef",
      red |-> "#d20f39",
      maroon |-> "#e64553",
      peach |-> "#fe640b",
      yellow |-> "#df8e1d",
      green |-> "#40a02b",
      teal |-> "#179299",
      sky |-> "#04a5e5",
      sapphire |-> "#209fb5",
      blue |-> "#1e66f5",
      lavender |-> "#7287fd",
      text |-> "#4c4f69",
      subtext1 |-> "#5c5f77",
      subtext0 |-> "#6c6f85",
      overlay2 |-> "#7c7f93",
      overlay1 |-> "#8c8fa1",
      overlay0 |-> "#9ca0b0",
      surface2 |-> "#acb0be",
      surface1 |-> "#bcc0cc",
      surface0 |-> "#ccd0da",
      base |-> "#eff1f5",
      mantle |-> "#e6e9ef",
      crust |-> "#dce0e8" ]

FRAPPE ==
    [ rosewater |-> "#f2d5cf",
      flamingo |-> "#eebebe",
      pink |-> "#f4b8e4",
      mauve |-> "#ca9ee6",
      red |-> "#e78284",
      maroon |-> "#ea999c",
      peach |-> "#ef9f76",
      yellow |-> "#e5c890",
      green |-> "#a6d189",
      teal |-> "#81c8be",
      sky |-> "#99d1db",
      sapphire |-> "#85c1dc",
      blue |-> "#8caaee",
      lavender |-> "#babbf1",
      text |-> "#c6d0f5",
      subtext1 |-> "#b5bfe2",
      subtext0 |-> "#a5adce",
      overlay2 |-> "#949cbb",
      overlay1 |-> "#838ba7",
      overlay0 |-> "#737994",
      surface2 |-> "#626880",
      surface1 |-> "#51576d",
      surface0 |-> "#414559",
      base |-> "#303446",
      mantle |-> "#292c3c",
      crust |-> "#232634" ]

MACCHIATO ==
    [ rosewater |-> "#f4dbd6",
      flamingo |-> "#f0c6c6",
      pink |-> "#f5bde6",
      mauve |-> "#c6a0f6",
      red |-> "#ed8796",
      maroon |-> "#ee99a0",
      peach |-> "#f5a97f",
      yellow |-> "#eed49f",
      green |-> "#a6da95",
      teal |-> "#8bd5ca",
      sky |-> "#91d7e3",
      sapphire |-> "#7dc4e4",
      blue |-> "#8aadf4",
      lavender |-> "#b7bdf8",
      text |-> "#cad3f5",
      subtext1 |-> "#b8c0e0",
      subtext0 |-> "#a5adcb",
      overlay2 |-> "#939ab7",
      overlay1 |-> "#8087a2",
      overlay0 |-> "#6e738d",
      surface2 |-> "#5b6078",
      surface1 |-> "#494d64",
      surface0 |-> "#363a4f",
      base |-> "#24273a",
      mantle |-> "#1e2030",
      crust |-> "#181926" ]

MOCHA ==
    [ rosewater |-> "#f5e0dc",
      flamingo |-> "#f2cdcd",
      pink |-> "#f5c2e7",
      mauve |-> "#cba6f7",
      red |-> "#f38ba8",
      maroon |-> "#eba0ac",
      peach |-> "#fab387",
      yellow |-> "#f9e2af",
      green |-> "#a6e3a1",
      teal |-> "#94e2d5",
      sky |-> "#89dceb",
      sapphire |-> "#74c7ec",
      blue |-> "#89b4fa",
      lavender |-> "#b4befe",
      text |-> "#cdd6f4",
      subtext1 |-> "#bac2de",
      subtext0 |-> "#a6adc8",
      overlay2 |-> "#9399b2",
      overlay1 |-> "#7f849c",
      overlay0 |-> "#6c7086",
      surface2 |-> "#585b70",
      surface1 |-> "#45475a",
      surface0 |-> "#313244",
      base |-> "#1e1e2e",
      mantle |-> "#181825",
      crust |-> "#11111b" ]
Flavours == <<"Latte", "Frappe", "Macchiato", "Mocha">>

(* apply(): let c = match self.flavour { ... }                              *)
Palette(flavour) ==
    CASE flavour = "Latte" -> LATTE
      [] flavour = "Frappe" -> FRAPPE
      [] flavour = "Macchiato" -> MACCHIATO
      [] flavour = "Mocha" -> MOCHA

---------------------------------------------------------------------------
(* ColorScheme.                                                            *)

latte(modifications) ==
    [flavour |-> "Latte", no_background |-> FALSE, modifications |-> modifications]

frappe(modifications) ==
    [flavour |-> "Frappe", no_background |-> FALSE, modifications |-> modifications]

macchiato(modifications) ==
    [flavour |-> "Macchiato", no_background |-> FALSE, modifications |-> modifications]

mocha(modifications) ==
    [flavour |-> "Mocha", no_background |-> FALSE, modifications |-> modifications]

(* no_bg that leaves the flag as the constructor set it.                   *)
no_bg_dropped(self, bool) == self

no_bg(self, bool) == [self EXCEPT !.no_background = bool]

name(self) ==
    CASE self.flavour = "Latte" -> "catppuccin-latte"
      [] self.flavour = "Frappe" -> "catppuccin-frappe"
      [] self.flavour = "Macchiato" -> "catppuccin-macchiato"
      [] self.flavour = "Mocha" -> "catppuccin-mocha"

---------------------------------------------------------------------------
(* Catppuccin, the plugin.                                                 *)

Catppuccin_new == [no_background |-> FALSE, modifications |-> "noop"]

no_background(self) == [self EXCEPT !.no_background = TRUE]

modify(self, modifications) == [self EXCEPT !.modifications = modifications]

(* plug adding Mocha before the other three.                               *)
plug_mocha_first(self, list) ==
    LET no == self.no_background
        m == self.modifications
        l1 == add_colorscheme(list, no_bg(mocha(m), no))
        l2 == add_colorscheme(l1, no_bg(latte(m), no))
        l3 == add_colorscheme(l2, no_bg(frappe(m), no))
    IN  add_colorscheme(l3, no_bg(macchiato(m), no))

(* plug(self): the scheme list after the four add_colorscheme calls.       *)
plug(self, list) ==
    LET no == self.no_background
        m == self.modifications
        l1 == add_colorscheme(list, no_bg(latte(m), no))
        l2 == add_colorscheme(l1, no_bg(frappe(m), no))
        l3 == add_colorscheme(l2, no_bg(macchiato(m), no))
    IN  add_colorscheme(l3, no_bg(mocha(m), no))

---------------------------------------------------------------------------
(* The closures given to modify, by what they write when called with the   *)
(* palette c.  "noop" is new()'s |_| {}; "red_delimiter" is the example of *)
(* modify's documentation, which hands form::set the palette's string      *)
(* itself, not a Form; "restyle" is a closure that replaces "Default",     *)
(* writes a form the scheme does not know, and writes one name twice.      *)

(* A &'static str given to form::set as the value, as written: what the    *)
(* registry makes of it is the host's business.                            *)
Str(s) == [str |-> s]

Closures == {"noop", "red_delimiter", "restyle"}

Writes(modifications, c) ==
    CASE modifications = "noop" -> << >>
      [] modifications = "red_delimiter" ->
            << <<"punctuation.delimiter", Str(c.red)>> >>
      [] modifications = "restyle" ->
            << <<"Default", on(with(c.crust), c.mantle)>>,
               <<"Custom", with(c.rosewater)>>,
               <<"keyword", bold(with(c.red))>>,
               <<"Custom", underlined(with(c.flamingo))>> >>

---------------------------------------------------------------------------
(* ColorScheme::apply.                                                     *)

(* The Default form with its background whatever the flag.                 *)
DefaultForm_always_on(c, nb) == on(with(c.text), c.base)

DefaultForm(c, nb) ==
    IF nb THEN with(c.text) ELSE on(with(c.text), c.base)

set_many(c) ==
    << <<"DefaultOk", with(c.sapphire)>>,
       <<"AccentOk", bold(with(c.sky))>>,
       <<"DefaultErr", with(c.maroon)>>,
       <<"AccentErr", bold(with(c.red))>>,
       <<"DefaultHint", with(c.text)>>,
       <<"AccentHint", bold(with(c.subtext0))>>,
       <<"MainCursor", reverse(new)>>,
       <<"ExtraCursor", reverse(new)>>,
       <<"MainSelection", on(with(c.base), c.overlay1)>>,
       <<"ExtraSelection", on(with(c.base), c.overlay0)>>,
       <<"Inactive", with(c.overlay2)>>,
       <<"LineNum", with(c.overlay2)>>,
       <<"MainLineNum", with(c.yellow)>>,
       <<"WrappedLineNum", with(c.teal)>>,
       <<"File", with(c.yellow)>>,
       <<"Selections", with(c.blue)>>,
       <<"Coord", with(c.peach)>>,
       <<"Separator", with(c.teal)>>,
       <<"Mode", with(c.green)>>,
       <<"type", italic(with(c.yellow))>>,
       <<"type.builtin", reset(with(c.yellow))>>,
       <<"function", reset(with(c.blue))>>,
       <<"comment", with(c.overlay1)>>,
       <<"comment.documentation", bold(with(c.overlay1))>>,
       <<"punctuation.bracket", with(c.subtext0)>>,
       <<"punctuation.delimiter", with(c.subtext0)>>,
       <<"constant", with(c.overlay1)>>,
       <<"constant.builtin", with(c.peach)>>,
       <<"character", with(c.peach)>>,
       <<"number", with(c.peach)>>,
       <<"variable.parameter", italic(new)>>,
       <<"variable.builtin", with(c.peach)>>,
       <<"label", with(c.green)>>,
       <<"keyword", with(c.mauve)>>,
       <<"string", with(c.green)>>,
       <<"escape", with(c.peach)>>,
       <<"attribute", with(c.mauve)>>,
       <<"operator", with(c.sapphire)>>,
       <<"constructor", with(c.peach)>>,
       <<"module", italic(with(c.blue))>>,
       <<"markup", new>>,
       <<"markup.strong", bold(with(c.maroon))>>,
       <<"markup.italic", italic(with(c.maroon))>>,
       <<"markup.strikethrough", crossed_out(new)>>,
       <<"markup.underline", underlined(new)>>,
       <<"markup.heading", bold(with(c.blue))>>,
       <<"markup.math", with(c.yellow)>>,
       <<"markup.quote", bold(with(c.maroon))>>,
       <<"markup.environment", with(c.pink)>>,
       <<"markup.environment.name", with(c.blue)>>,
       <<"markup.link", underlined(with(c.lavender))>>,
       <<"markup.raw", with(c.teal)>>,
       <<"markup.list", with(c.yellow)>>,
       <<"markup.list.checked", with(c.green)>>,
       <<"markup.list.unchecked", with(c.overlay1)>>,
       <<"VertRule", with(c.subtext0)>>,
       <<"Frame", on(with(c.subtext0), c.base)>> >>

(* ApplyWrites with "Frame" losing its background under the flag too.       *)
ApplyWrites_frame_flag(c, nb) ==
    LET t == set_many(c)
    IN  << <<"Default", DefaultForm(c, nb)>> >>
        \o [t EXCEPT ![Len(t)] =
                <<"Frame", IF nb THEN with(c.subtext0)
                           ELSE on(with(c.subtext0), c.base)>>]

(* ApplyWrites with the "markup.quote" entry written as "markup.strong".     *)
ApplyWrites_quote_as_strong(c, nb) ==
    << <<"Default", DefaultForm(c, nb)>> >>
    \o [k \in 1..Len(set_many(c)) |->
            IF set_many(c)[k][1] = "markup.quote"
            THEN <<"markup.strong", set_many(c)[k][2]>> ELSE set_many(c)[k]]

(* ApplyWrites with "keyword" taking Mocha's mauve whatever the flavour.     *)
ApplyWrites_keyword_mocha(c, nb) ==
    << <<"Default", DefaultForm(c, nb)>> >>
    \o [k \in 1..Len(set_many(c)) |->
            IF set_many(c)[k][1] = "keyword"
            THEN <<"keyword", with(MOCHA.mauve)>> ELSE set_many(c)[k]]

(* What apply() registers before it calls the modifications: "Default",    *)
(* then the set_many! list, in order.                                      *)
ApplyWrites(c, nb) ==
    << <<"Default", DefaultForm(c, nb)>> >> \o set_many(c)

SetStmt(w) == [op |-> "set", name |-> w[1], form |-> w[2]]

CallStmt == [op |-> "call", name |-> "", form |-> NoForm]

(* apply() calling the modifications before its own writes.                *)
ApplyBody_call_first(self) ==
    LET w == ApplyWrites(Palette(self.flavour), self.no_background)
    IN  <<CallStmt>> \o [k \in 1..Len(w) |-> SetStmt(w[k])]

(* apply() calling the modifications between "Default" and the table.       *)
ApplyBody_call_after_default(self) ==
    LET w == ApplyWrites(Palette(self.flavour), self.no_background)
    IN  <<SetStmt(w[1]), CallStmt>> \o [k \in 1..(Len(w) - 1) |-> SetStmt(w[k + 1])]

(* The statements of apply(), in order: the writes, then the call of       *)
(* (self.modifications)(c).                                                *)
ApplyBody(self) ==
    LET w == ApplyWrites(Palette(self.flavour), self.no_background)
    IN  [k \in 1..Len(w) |-> SetStmt(w[k])] \o <<CallStmt>>

(* A write that merges with the form already there, flipping the           *)
(* attributes both have.                                                   *)
Exec_toggle(reg, key, form) ==
    IF reg[key] = NoForm \/ "attrs" \notin DOMAIN form \/ "attrs" \notin DOMAIN reg[key]
    THEN set(reg, key, form)
    ELSE set(reg, key,
             [form EXCEPT !.attrs = (reg[key].attrs \ @) \cup (@ \ reg[key].attrs)])

(* One form::set(name, form) of apply() or of the modifications.           *)
Exec(reg, key, form) == set(reg, key, form)

RECURSIVE SetAll(_, _)
(* form::set for each entry of a list, in list order.                      *)
SetAll(reg, w) ==
    IF w = << >> THEN reg ELSE SetAll(set(reg, w[1][1], w[1][2]), Tail(w))

(* apply() as a whole: the registry it leaves when it runs to its end.     *)
apply(self, reg) ==
    LET c == Palette(self.flavour)
    IN  SetAll(SetAll(reg, ApplyWrites(c, self.no_background)),
               Writes(self.modifications, c))

---------------------------------------------------------------------------
(* The registry before the plugin is used: empty, or holding forms other   *)
(* code has set (some under names the scheme writes, some not).            *)

ExtraNames == {"Custom", "Other"}

FormNames ==
    {ApplyWrites(MOCHA, FALSE)[k][1] : k \in 1..Len(ApplyWrites(MOCHA, FALSE))}
    \cup ExtraNames

EmptyForms == [n \in FormNames |-> NoForm]

ForeignForms ==
    [n \in FormNames |->
        CASE n = "Default" -> on(with("#ffffff"), "#000000")
          [] n = "Frame" -> bold(with("#ffffff"))
          [] n = "keyword" -> italic(with("#ff0000"))
          [] n = "markup.list" -> on(with("#00ff00"), "#101010")
          [] n = "Custom" -> with("#0000ff")
          [] n = "Other" -> reverse(new)
          [] OTHER -> NoForm]

InitForms == {EmptyForms, ForeignForms}

---------------------------------------------------------------------------
(* Every scheme value, with the statements of its apply() and the writes   *)
(* of its modifications.                                                   *)
ColorSchemes ==
    [flavour : {Flavours[k] : k \in 1..Len(Flavours)},
     no_background : BOOLEAN,
     modifications : Closures]

ApplyWritesOf ==
    [f \in {Flavours[k] : k \in 1..Len(Flavours)} |->
        [nb \in BOOLEAN |-> ApplyWrites(Palette(f), nb)]]

BodyOf == [s \in ColorSchemes |-> ApplyBody(s)]

WritesOf == [s \in ColorSchemes |-> Writes(s.modifications, Palette(s.flavour))]

(* Every (name, form) a scheme's apply() writes, the modifications' writes  *)
(* included.                                                               *)
WrittenOf ==
    [s \in ColorSchemes |->
        LET w == ApplyWritesOf[s.flavour][s.no_background] \o WritesOf[s]
        IN  {w[k] : k \in 1..Len(w)}]

Init ==
    /\ plugin = Catppuccin_new
    /\ plugged = FALSE
    /\ schemes = << >>
    /\ forms \in InitForms
    /\ pc = "idle"
    /\ cur = 0
    /\ i = 0
    /\ j = 0
    /\ log = << >>
    /\ start = forms
    /\ prev = 0
    /\ invoked = {}
    /\ kept = 0

host == <<schemes, forms, pc, cur, i, j, log, start, prev, invoked, kept>>

(* Catppuccin::no_background                                               *)
NoBackground ==
    /\ ~plugged
    /\ plugin' = no_background(plugin)
    /\ UNCHANGED <<plugged, host>>

(* Catppuccin::modify                                                      *)
Modify(m) ==
    /\ ~plugged
    /\ plugin' = modify(plugin, m)
    /\ UNCHANGED <<plugged, host>>

(* Plugin::plug                                                            *)
Plug ==
    /\ ~plugged
    /\ plugged' = TRUE
    /\ schemes' = plug(plugin, schemes)
    /\ UNCHANGED <<plugin, forms, pc, cur, i, j, log, start, prev, invoked, kept>>

(* The host calls apply() on one of its schemes.                           *)
BeginApply(k) ==
    /\ pc \in {"idle", "done"}
    /\ k \in 1..Len(schemes)
    /\ pc' = "apply"
    /\ cur' = k
    /\ i' = 1
    /\ j' = 0
    /\ log' = << >>
    /\ start' = forms
    /\ prev' = IF pc = "done" THEN cur ELSE 0
    /\ kept' = 0
    /\ UNCHANGED <<plugin, plugged, schemes, forms, invoked>>

Running == pc = "apply" /\ i <= Len(BodyOf[schemes[cur]])

(* apply(): the next form::set                                             *)
SetStep ==
    /\ Running
    /\ LET s == BodyOf[schemes[cur]][i]
       IN  /\ s.op = "set"
           /\ forms' = Exec(forms, s.name, s.form)
           /\ log' = Append(log, <<"set", s.name>>)
    /\ i' = i + 1
    /\ UNCHANGED <<plugin, plugged, schemes, pc, cur, j, start, prev, invoked, kept>>

(* apply(): (self.modifications)(c)                                        *)
InvokeModifications ==
    /\ Running
    /\ BodyOf[schemes[cur]][i].op = "call"
    /\ pc' = "modifications"
    /\ j' = 1
    /\ log' = Append(log, <<"call", schemes[cur].modifications>>)
    /\ invoked' = invoked \cup {schemes[cur].flavour}
    /\ UNCHANGED <<plugin, plugged, schemes, forms, cur, i, start, prev, kept>>

CurWrites == WritesOf[schemes[cur]]

(* the modifications: the closure's next form::set                         *)
ModStep ==
    /\ pc = "modifications"
    /\ j <= Len(CurWrites)
    /\ forms' = Exec(forms, CurWrites[j][1], CurWrites[j][2])
    /\ log' = Append(log, <<"set", CurWrites[j][1]>>)
    /\ j' = j + 1
    /\ UNCHANGED <<plugin, plugged, schemes, pc, cur, i, start, prev, invoked, kept>>

(* the modifications return to apply()                                     *)
ModReturn ==
    /\ pc = "modifications"
    /\ j > Len(CurWrites)
    /\ pc' = "apply"
    /\ i' = i + 1
    /\ j' = 0
    /\ UNCHANGED <<plugin, plugged, schemes, forms, cur, log, start, prev, invoked, kept>>

(* apply() returns                                                         *)
Return ==
    /\ pc = "apply"
    /\ i > Len(BodyOf[schemes[cur]])
    /\ pc' = "done"
    /\ UNCHANGED <<plugin, plugged, schemes, forms, cur, i, j, log, start, prev,
                   invoked, kept>>

Next ==
    \/ NoBackground
    \/ \E m \in Closures : Modify(m)
    \/ Plug
    \/ \E k \in 1..4 : BeginApply(k)
    \/ SetStep
    \/ InvokeModifications
    \/ ModStep
    \/ ModReturn
    \/ Return

Spec == Init /\ [][Next]_vars

(* A registry write fails and apply() unwinds: the writes made so far      *)
(* stay, nothing is rolled back.                                           *)
Interrupt ==
    /\ pc \in {"apply", "modifications"}
    /\ pc' = "aborted"
    /\ LET n == Cardinality({p \in 1..Len(log) : log[p][1] = "set"})
       IN  kept' = IF n > kept THEN n ELSE kept
    /\ UNCHANGED <<plugin, plugged, schemes, forms, cur, i, j, log, start, prev,
                   invoked>>

(* The host calls apply() again on the scheme whose apply() was aborted.   *)
Retry ==
    /\ pc = "aborted"
    /\ pc' = "apply"
    /\ i' = 1
    /\ j' = 0
    /\ log' = << >>
    /\ UNCHANGED <<plugin, plugged, schemes, forms, cur, start, prev, invoked, kept>>

(* apply() with aborts and retries, from the registry as the plugin found  *)
(* it.                                                                     *)
NextRetry ==
    \/ NoBackground
    \/ \E m \in Closures : Modify(m)
    \/ Plug
    \/ \E k \in 1..4 : pc = "idle" /\ BeginApply(k)
    \/ SetStep
    \/ InvokeModifications
    \/ ModStep
    \/ ModReturn
    \/ Return
    \/ Interrupt
    \/ Retry

SpecRetry == Init /\ [][NextRetry]_vars


---------------------------------------------------------------------------
(* The documented style table: name, foreground slot, background slot,     *)
(* attributes.  "Default" loses its background when the background is      *)
(* suppressed.                                                             *)

StyleTable ==
    << <<"Default", "text", "base", {}>>,
       <<"DefaultOk", "sapphire", "none", {}>>,
       <<"AccentOk", "sky", "none", {"bold"}>>,
       <<"DefaultErr", "maroon", "none", {}>>,
       <<"AccentErr", "red", "none", {"bold"}>>,
       <<"DefaultHint", "text", "none", {}>>,
       <<"AccentHint", "subtext0", "none", {"bold"}>>,
       <<"MainCursor", "none", "none", {"reverse"}>>,
       <<"ExtraCursor", "none", "none", {"reverse"}>>,
       <<"MainSelection", "base", "overlay1", {}>>,
       <<"ExtraSelection", "base", "overlay0", {}>>,
       <<"Inactive", "overlay2", "none", {}>>,
       <<"LineNum", "overlay2", "none", {}>>,
       <<"MainLineNum", "yellow", "none", {}>>,
       <<"WrappedLineNum", "teal", "none", {}>>,
       <<"File", "yellow", "none", {}>>,
       <<"Selections", "blue", "none", {}>>,
       <<"Coord", "peach", "none", {}>>,
       <<"Separator", "teal", "none", {}>>,
       <<"Mode", "green", "none", {}>>,
       <<"type", "yellow", "none", {"italic"}>>,
       <<"type.builtin", "yellow", "none", {"reset"}>>,
       <<"function", "blue", "none", {"reset"}>>,
       <<"comment", "overlay1", "none", {}>>,
       <<"comment.documentation", "overlay1", "none", {"bold"}>>,
       <<"punctuation.bracket", "subtext0", "none", {}>>,
       <<"punctuation.delimiter", "subtext0", "none", {}>>,
       <<"constant", "overlay1", "none", {}>>,
       <<"constant.builtin", "peach", "none", {}>>,
       <<"character", "peach", "none", {}>>,
       <<"number", "peach", "none", {}>>,
       <<"variable.parameter", "none", "none", {"italic"}>>,
       <<"variable.builtin", "peach", "none", {}>>,
       <<"label", "green", "none", {}>>,
       <<"keyword", "mauve", "none", {}>>,
       <<"string", "green", "none", {}>>,
       <<"escape", "peach", "none", {}>>,
       <<"attribute", "mauve", "none", {}>>,
       <<"operator", "sapphire", "none", {}>>,
       <<"constructor", "peach", "none", {}>>,
       <<"module", "blue", "none", {"italic"}>>,
       <<"markup", "none", "none", {}>>,
       <<"markup.strong", "maroon", "none", {"bold"}>>,
       <<"markup.italic", "maroon", "none", {"italic"}>>,
       <<"markup.strikethrough", "none", "none", {"crossed_out"}>>,
       <<"markup.underline", "none", "none", {"underlined"}>>,
       <<"markup.heading", "blue", "none", {"bold"}>>,
       <<"markup.math", "yellow", "none", {}>>,
       <<"markup.quote", "maroon", "none", {"bold"}>>,
       <<"markup.environment", "pink", "none", {}>>,
       <<"markup.environment.name", "blue", "none", {}>>,
       <<"markup.link", "lavender", "none", {"underlined"}>>,
       <<"markup.raw", "teal", "none", {}>>,
       <<"markup.list", "yellow", "none", {}>>,
       <<"markup.list.checked", "green", "none", {}>>,
       <<"markup.list.unchecked", "overlay1", "none", {}>>,
       <<"VertRule", "subtext0", "none", {}>>,
       <<"Frame", "subtext0", "base", {}>> >>

StyleNames == [k \in 1..Len(StyleTable) |-> StyleTable[k][1]]

StyleForm(c, nb, k) ==
    LET e == StyleTable[k]
    IN  [fg |-> IF e[2] = "none" THEN None ELSE c[e[2]],
         bg |-> IF e[3] = "none" \/ (e[1] = "Default" /\ nb) THEN None ELSE c[e[3]],
         attrs |-> e[4]]

PaletteColors(c) == {c[slot] : slot \in DOMAIN c}

(* The scheme whose apply() is running or has just returned, its palette,  *)
(* and what its modifications write.                                       *)
Self == schemes[cur]

Colors == Palette(Self.flavour)

Modified == {CurWrites[k][1] : k \in 1..Len(CurWrites)}

LastSet(w, n) ==
    w[CHOOSE k \in 1..Len(w) :
          w[k][1] = n /\ \A q \in (k + 1)..Len(w) : w[q][1] # n][2]

Calls == {p \in 1..Len(log) : log[p][1] = "call"}

Sets(n) == {p \in 1..Len(log) : log[p] = <<"set", n>>}

(* The writes apply() itself has made: the log up to the call.             *)
OwnWrites ==
    IF Calls = {} THEN log
    ELSE SubSeq(log, 1, (CHOOSE p \in Calls : \A q \in Calls : p <= q) - 1)

---------------------------------------------------------------------------
(* C1: with the no-op modifications, one apply() writes "Default" exactly  *)
(* once, and the "Default" it leaves has the palette's text as foreground  *)
(* and has a background, the palette's base, iff no_background is false.   *)
C1_DefaultOnceBackgroundIffNotSuppressed ==
    (pc = "done" /\ Self.modifications = "noop") =>
        /\ Cardinality(Sets("Default")) = 1
        /\ forms["Default"].fg = Colors.text
        /\ (forms["Default"].bg # None) <=> ~Self.no_background
        /\ ~Self.no_background => forms["Default"].bg = Colors.base

C1_Witness ==
    /\ pc = "done"
    /\ Self.modifications = "noop"
    /\ Self.flavour = "Latte"
    /\ Self.no_background
    /\ start["Default"].bg = "#000000"
    /\ forms["Default"] = with("#4c4f69")

(* C2: override wins.  After apply() returns, every name the modifications *)
(* set holds the value they set it to last, whatever the scheme's own form *)
(* for it, and every other name of the table holds the scheme's form; the  *)
(* modifications are given the palette of the flavour applied.             *)
C2_OverrideWins ==
    pc = "done" =>
        /\ \A n \in Modified : forms[n] = LastSet(CurWrites, n)
        /\ \A k \in 1..Len(StyleTable) :
              StyleNames[k] \notin Modified =>
                  forms[StyleNames[k]] = StyleForm(Colors, Self.no_background, k)
        /\ (Self.flavour = "Mocha" /\ Self.modifications = "red_delimiter") =>
              /\ forms["punctuation.delimiter"] = Str("#f38ba8")
              /\ forms["punctuation.bracket"] = with("#a6adc8")
        /\ Self.modifications = "restyle" =>
              forms["Default"] = on(with(Colors.crust), Colors.mantle)

C2_Witness ==
    /\ pc = "done"
    /\ Self.flavour = "Mocha"
    /\ Self.modifications = "red_delimiter"
    /\ forms["punctuation.delimiter"] = Str("#f38ba8")
    /\ forms["punctuation.delimiter"] # StyleForm(MOCHA, Self.no_background, 27)
    /\ forms["punctuation.bracket"] = with("#a6adc8")

(* C3: within one apply() the modifications are called exactly once, after *)
(* the write of "Default" and of every entry of the table; once they have  *)
(* been called, only they write.                                           *)
C3_ModificationsOnceAfterBase ==
    LET calls == Calls
        n == Cardinality(calls)
    IN
    /\ n <= 1
    /\ pc = "done" => n = 1
    /\ pc = "modifications" => n = 1
    /\ \A p \in calls :
          /\ p = Len(StyleTable) + 1
          /\ \A k \in 1..Len(StyleTable) : log[k] = <<"set", StyleNames[k]>>
          /\ Len(log) - p <= Len(CurWrites)
          /\ \A q \in (p + 1)..Len(log) : log[q] = <<"set", CurWrites[q - p][1]>>

C3_Witness ==
    /\ pc = "done"
    /\ Self.modifications = "noop"
    /\ Self.flavour = "Macchiato"
    /\ Len(log) = Len(StyleTable) + 1
    /\ log[Len(log)] = <<"call", "noop">>

(* C4: no_background changes "Default" only.  Every other name of the      *)
(* table gets the form it gets under the other value of the flag; "Frame"  *)
(* and the two selections keep their backgrounds.                          *)
C4_FlagTouchesDefaultOnly ==
    pc = "done" =>
        /\ \A k \in 2..Len(StyleTable) :
              StyleNames[k] \notin Modified =>
                  /\ forms[StyleNames[k]] = ApplyWritesOf[Self.flavour][TRUE][k][2]
                  /\ forms[StyleNames[k]] = ApplyWritesOf[Self.flavour][FALSE][k][2]
        /\ forms["Frame"].bg = Colors.base
        /\ forms["MainSelection"].bg = Colors.overlay1
        /\ forms["ExtraSelection"].bg = Colors.overlay0
        /\ Self.flavour = "Latte" => forms["Frame"].bg = "#eff1f5"

C4_Witness ==
    /\ pc = "done"
    /\ Self.flavour = "Latte"
    /\ Self.no_background
    /\ Self.modifications = "noop"
    /\ forms["Default"].bg = None
    /\ forms["Frame"] = on(with("#6c6f85"), "#eff1f5")

(* C5: idempotence.  When apply() returns from a call made right after a   *)
(* call of the same scheme returned, the registry is as that first call    *)
(* left it.                                                                *)
C5_Idempotent ==
    (pc = "done" /\ prev = cur) => forms = start

C5_Witness ==
    /\ pc = "done"
    /\ prev = cur
    /\ Self.modifications = "restyle"
    /\ Self.no_background
    /\ forms["Other"] = reverse(new)
    /\ forms = start

(* C6: the names apply() itself writes, in order, are the same for every   *)
(* flavour and flag value, and no name is among them twice.                *)
C6_SameNamesEachOnce ==
    (pc = "done" \/ pc = "modifications") =>
        LET own == OwnWrites
        IN  /\ \A p, q \in 1..Len(own) : own[p] = own[q] => p = q
            /\ \A f \in DOMAIN Flavours : \A nb \in BOOLEAN :
                  own = [k \in 1..Len(ApplyWritesOf[Flavours[f]][nb]) |->
                            <<"set", ApplyWritesOf[Flavours[f]][nb][k][1]>>]

C6_Witness ==
    /\ pc = "done"
    /\ Self.flavour = "Frappe"
    /\ Self.no_background
    /\ Len(OwnWrites) = Len(StyleTable)
    /\ Cardinality({OwnWrites[p][2] : p \in 1..Len(OwnWrites)}) = Len(StyleTable)

(* C7: plug() adds exactly four schemes, named catppuccin-latte, -frappe,  *)
(* -macchiato and -mocha, each with the plugin's no_background and         *)
(* modifications.                                                          *)
C7_PlugAddsFourSchemes ==
    /\ ~plugged => schemes = << >>
    /\ plugged =>
          /\ Len(schemes) = 4
          /\ {name(schemes[k]) : k \in 1..Len(schemes)} =
                {"catppuccin-latte", "catppuccin-frappe",
                 "catppuccin-macchiato", "catppuccin-mocha"}
          /\ \A p, q \in 1..Len(schemes) : name(schemes[p]) = name(schemes[q]) => p = q
          /\ \A k \in 1..Len(schemes) :
                /\ schemes[k].no_background = plugin.no_background
                /\ schemes[k].modifications = plugin.modifications

C7_Witness ==
    /\ plugged
    /\ plugin.no_background
    /\ plugin.modifications = "red_delimiter"
    /\ Len(schemes) = 4
    /\ \A k \in 1..4 : schemes[k].no_background

(* C8, as claimed: once plug() has returned, every flavour has been        *)
(* resolved, its modifications called.                                     *)
C8_PlugResolvesEveryFlavour ==
    plugged => invoked = {Flavours[k] : k \in DOMAIN Flavours}

(* C8, amended: plug() resolves nothing.  It adds the schemes of Latte,    *)
(* Frappe, Macchiato and Mocha, in that order; until the host calls        *)
(* apply() no form is written and no modifications are called, and the     *)
(* modifications are called only for flavours whose apply() the host has   *)
(* called.                                                                 *)
C8_PlugOnlyAddsSchemes ==
    /\ plugged => [k \in 1..Len(schemes) |-> schemes[k].flavour] = Flavours
    /\ pc = "idle" => (forms = start /\ log = << >> /\ invoked = {} /\ cur = 0)
    /\ cur = 0 => invoked = {}
    /\ pc = "done" => Self.flavour \in invoked

C8_Witness ==
    /\ plugged
    /\ pc = "idle"
    /\ Len(schemes) = 4
    /\ plugin.modifications = "restyle"
    /\ forms = ForeignForms
    /\ invoked = {}

(* C9: with the no-op modifications the registry apply() leaves agrees     *)
(* with the documented table entry for entry, the names written are the    *)
(* table's, and every colour is one of the flavour's own palette.          *)
C9_MatchesStyleTable ==
    (pc = "done" /\ Self.modifications = "noop") =>
        /\ [p \in 1..Len(OwnWrites) |-> OwnWrites[p][2]] = StyleNames
        /\ \A k \in 1..Len(StyleTable) :
              /\ forms[StyleNames[k]] = StyleForm(Colors, Self.no_background, k)
              /\ forms[StyleNames[k]].fg \in PaletteColors(Colors) \cup {None}
              /\ forms[StyleNames[k]].bg \in PaletteColors(Colors) \cup {None}
        /\ (Self.flavour = "Mocha" /\ ~Self.no_background) =>
              /\ forms["Default"] = [fg |-> "#cdd6f4", bg |-> "#1e1e2e", attrs |-> {}]
              /\ forms["keyword"] = [fg |-> "#cba6f7", bg |-> None, attrs |-> {}]

C9_Witness ==
    /\ pc = "done"
    /\ Self.modifications = "noop"
    /\ Self.flavour = "Mocha"
    /\ ~Self.no_background
    /\ start = ForeignForms
    /\ forms["Default"] = on(with("#cdd6f4"), "#1e1e2e")
    /\ forms["keyword"] = with("#cba6f7")

(* C10: no rollback, safe retry.  An apply() that is aborted after some of *)
(* its writes keeps those writes; called again and run to its end, it      *)
(* leaves the registry one uninterrupted apply() leaves from the registry  *)
(* the aborted call started in.  On the way every name holds what it held  *)
(* at the start or a form this scheme writes under that name.              *)
C10_RetryAfterAbort ==
    /\ pc = "done" => forms = apply(Self, start)
    /\ pc \in {"apply", "modifications", "aborted"} =>
          \A n \in FormNames :
              forms[n] # start[n] => <<n, forms[n]>> \in WrittenOf[Self]

C10_Witness ==
    /\ pc = "done"
    /\ kept = 60
    /\ Self.modifications = "restyle"
    /\ start = ForeignForms
    /\ forms = apply(Self, ForeignForms)

=============================================================================
